---------------------------- MODULE Spec2Model ----------------------------
(***************************************************************************)
(* The Lox scanner (src/src/scanner.rs, src/src/token.rs) as a state       *)
(* machine.  A state is a Scanner (source, current_position,               *)
(* current_start, current_line), the local token vector of scan_tokens and *)
(* the value scan_tokens has returned so far.  One action is one iteration *)
(* of the loop of scan_tokens: mark_start followed by the whole of         *)
(* scan_token, sub-scans included.  Characters are one-character strings,  *)
(* positions are 0-based as in the source, a failed unwrap() is the        *)
(* outcome "Panic".                                                        *)
(***************************************************************************)
EXTENDS Integers, Sequences, FiniteSets, TLC

VARIABLES source, current_position, current_start, current_line, tokens, result

vars == <<source, current_position, current_start, current_line, tokens, result>>

\* Longest source text explored.
MaxLen == 3

\* Characters the explored sources are made of: every operator character,
\* slash, quote, dot, a digit, two letters (spelling the keyword "or"),
\* newline, space, and one character no arm recognises.
Alphabet == {"!", "=", "<", ">", "/", "\"", ".", "1", "o", "r", "\n", " ", "@"}

\* Longest source text explored over LineAlphabet.
MaxLineLen == 4

\* The characters line numbers in errors depend on: sources over these are
\* explored one character further ("!", a newline, "=" and a fourth).
LineAlphabet == {"!", "=", "\n", "\"", "@"}

Sources ==
    UNION {[1..n -> Alphabet] : n \in 0..MaxLen}
    \cup UNION {[1..n -> LineAlphabet] : n \in 0..MaxLineLen}

-----------------------------------------------------------------------------
(* Option<char>: None, or the character itself.  Panic is the outcome of    *)
(* unwrap() on None.                                                        *)
None == "None"
Panic == "Panic"

Digits == {"0", "1", "2", "3", "4", "5", "6", "7", "8", "9"}

Letters == {"a", "b", "c", "d", "e", "f", "g", "h", "i", "j", "k", "l", "m",
            "n", "o", "p", "q", "r", "s", "t", "u", "v", "w", "x", "y", "z",
            "A", "B", "C", "D", "E", "F", "G", "H", "I", "J", "K", "L", "M",
            "N", "O", "P", "Q", "R", "S", "T", "U", "V", "W", "X", "Y", "Z",
            "_"}

is_numeric(character) == character \in Digits

is_alpha(character) == character \in Letters

is_alphanumeric(character) == is_numeric(character) \/ is_alpha(character)

\* source[from..to) of the Rust slice syntax, 0-based and half-open.
Slice(src, from, to) == SubSeq(src, from + 1, to)

finished(src, position) == position >= Len(src)

is_valid_position(src, position) == position <= Len(src)

get_character_at_position(src, position) ==
    IF position < Len(src) THEN src[position + 1] ELSE Panic

get_current_char(src, position) ==
    IF finished(src, position) THEN None
    ELSE get_character_at_position(src, position)

get_next_char(src, position) ==
    IF ~is_valid_position(src, position + 1) THEN None
    ELSE get_character_at_position(src, position + 1)

-----------------------------------------------------------------------------
(* Tokens.  A payload is always a sequence: empty for the kinds without     *)
(* one, the characters for Identifier and String, <<keyword>> for Keyword   *)
(* and <<numerator, denominator>> for Number.                               *)

build_token(kind, payload, start, position, line) ==
    [kind |-> kind, payload |-> payload,
     position |-> [start |-> start, current |-> position, line |-> line]]

build_error(message, line) == [message |-> message, line |-> line]

InvalidSyntax == "Invalid syntax."
EOFInString == "EOF while scanning string literal"

\* What one scan step leaves behind: the cursor and line it reached, the
\* token it emitted (a sequence of at most one), and how it ended.
StepOk(position, line, emitted) ==
    [tag |-> "Ok", position |-> position, line |-> line,
     emitted |-> emitted, message |-> ""]

StepErr(position, line, message) ==
    [tag |-> "Err", position |-> position, line |-> line,
     emitted |-> <<>>, message |-> message]

StepPanic(position, line) ==
    [tag |-> "Panic", position |-> position, line |-> line,
     emitted |-> <<>>, message |-> ""]

StepToken(kind, payload, start, position, line) ==
    StepOk(position, line, <<build_token(kind, payload, start, position, line)>>)


-----------------------------------------------------------------------------
(* The arms of scan_token.  Each takes the scanner as mark_start left it    *)
(* (start = current_position = the position of the character matched) and   *)
(* the line counter, and yields the step's outcome.  The character has been *)
(* consumed by get_current_char_and_advance, so the cursor is start + 1.    *)

FixedChars == {"(", ")", "{", "}", ",", ".", "-", "+", ";", "*"}

FixedKind(character) ==
    CASE character = "(" -> "OpenParenthesis"
      [] character = ")" -> "CloseParenthesis"
      [] character = "{" -> "OpenCurlyBracket"
      [] character = "}" -> "CloseCurlyBracket"
      [] character = "," -> "Comma"
      [] character = "." -> "Dot"
      [] character = "-" -> "Minus"
      [] character = "+" -> "Plus"
      [] character = ";" -> "Semicolon"
      [] character = "*" -> "Asterisk"

scan_fixed(src, start, line) ==
    StepToken(FixedKind(src[start + 1]), <<>>, start, start + 1, line)

\* '!' if self.get_next_char() == Some('=')  /  '!'
scan_exclamation(src, start, line) ==
    LET position == start + 1
        next == get_next_char(src, position)
    IN  IF next = Panic THEN StepPanic(position, line)
        ELSE IF next = "="
             THEN StepToken("ExclamationEqual", <<>>, start, position + 1, line)
             ELSE StepToken("Exclamation", <<>>, start, position, line)

\* '>' if self.get_current_char() == Some('=')  /  '>'
scan_greater(src, start, line) ==
    LET position == start + 1
    IN  IF get_current_char(src, position) = "="
        THEN StepToken("GreaterEqual", <<>>, start, position + 1, line)
        ELSE StepToken("Greater", <<>>, start, position, line)

\* '<' if self.get_current_char() == Some('=')  /  '<'
scan_less(src, start, line) ==
    LET position == start + 1
    IN  IF get_current_char(src, position) = "="
        THEN StepToken("LessEqual", <<>>, start, position + 1, line)
        ELSE StepToken("Less", <<>>, start, position, line)

\* '=' if self.get_current_char() == Some('=')  /  '='
scan_equal(src, start, line) ==
    LET position == start + 1
    IN  IF get_current_char(src, position) = "="
        THEN StepToken("EqualEqual", <<>>, start, position + 1, line)
        ELSE StepToken("Equal", <<>>, start, position, line)

\* while self.get_current_char() != Some('\n') && !self.finished() { advance }
RECURSIVE comment_loop(_, _)
comment_loop(src, position) ==
    IF get_current_char(src, position) # "\n" /\ ~finished(src, position)
    THEN comment_loop(src, position + 1)
    ELSE position

\* scan_slash with the comment guard peeking one character too far, as the
\* '!' arm does.
scan_slash_peek_next(src, start, line) ==
    LET position == start + 1
        next == get_next_char(src, position)
    IN  IF next = Panic THEN StepPanic(position, line)
        ELSE IF next = "/"
             THEN StepOk(comment_loop(src, position), line, <<>>)
             ELSE StepToken("Slash", <<>>, start, position, line)

\* scan_slash with a comment that also consumes the character ending it.
scan_slash_past_newline(src, start, line) ==
    LET position == start + 1
    IN  IF get_current_char(src, position) = "/"
        THEN StepOk(comment_loop(src, position) + 1, line, <<>>)
        ELSE StepToken("Slash", <<>>, start, position, line)

\* '/' if self.get_current_char() == Some('/')  /  '/'
scan_slash(src, start, line) ==
    LET position == start + 1
    IN  IF get_current_char(src, position) = "/"
        THEN StepOk(comment_loop(src, position), line, <<>>)
        ELSE StepToken("Slash", <<>>, start, position, line)

\* The loop of scan_string: the cursor and line counter it stops with.
RECURSIVE string_loop(_, _, _)
string_loop(src, position, line) ==
    IF get_current_char(src, position) # "\"" /\ ~finished(src, position)
    THEN string_loop(src, position + 1,
                     IF get_current_char(src, position) = "\n"
                     THEN line + 1 ELSE line)
    ELSE <<position, line>>

\* scan_string slicing from current_start to current_position: the quotes
\* stay in the contents.
scan_string_with_quotes(src, start, line) ==
    LET stop == string_loop(src, start + 1, line)
        position == stop[1]
        reached == stop[2]
    IN  IF finished(src, position)
        THEN StepErr(position, reached, EOFInString)
        ELSE StepToken("String", Slice(src, start, position + 1),
                       start, position + 1, reached)

scan_string(src, start, line) ==
    LET stop == string_loop(src, start + 1, line)
        position == stop[1]
        reached == stop[2]
    IN  IF finished(src, position)
        THEN StepErr(position, reached, EOFInString)
        ELSE StepToken("String", Slice(src, start + 1, (position + 1) - 1),
                       start, position + 1, reached)

\* while is_numeric(self.get_current_char()) { advance }
RECURSIVE digit_loop(_, _)
digit_loop(src, position) ==
    IF is_numeric(get_current_char(src, position))
    THEN digit_loop(src, position + 1)
    ELSE position

DigitValue(character) ==
    CASE character = "0" -> 0 [] character = "1" -> 1 [] character = "2" -> 2
      [] character = "3" -> 3 [] character = "4" -> 4 [] character = "5" -> 5
      [] character = "6" -> 6 [] character = "7" -> 7 [] character = "8" -> 8
      [] character = "9" -> 9

\* str::parse::<f64> of digits with an optional ".digits": the value as
\* <<numerator, denominator>>, the denominator the least power of ten.
RECURSIVE ParseDecimal(_, _, _, _)
ParseDecimal(lexeme, numerator, denominator, fraction) ==
    IF lexeme = <<>>
    THEN IF denominator > 1 /\ numerator % 10 = 0
         THEN ParseDecimal(lexeme, numerator \div 10, denominator \div 10, fraction)
         ELSE <<numerator, denominator>>
    ELSE IF Head(lexeme) = "."
         THEN ParseDecimal(Tail(lexeme), numerator, denominator, TRUE)
         ELSE ParseDecimal(Tail(lexeme), numerator * 10 + DigitValue(Head(lexeme)),
                           IF fraction THEN denominator * 10 ELSE denominator,
                           fraction)

ParseF64(lexeme) == ParseDecimal(lexeme, 0, 1, FALSE)

scan_number(src, start, line) ==
    LET whole == digit_loop(src, start + 1)
        next == IF get_current_char(src, whole) = "."
                THEN get_next_char(src, whole) ELSE None
    IN  IF next = Panic THEN StepPanic(whole, line)
        ELSE LET position == IF get_current_char(src, whole) = "." /\ is_numeric(next)
                             THEN digit_loop(src, whole + 2)
                             ELSE whole
             IN  StepToken("Number", ParseF64(Slice(src, start, position)),
                           start, position, line)

\* while is_alphanumeric(self.get_current_char()) { advance }
RECURSIVE alphanumeric_loop(_, _)
alphanumeric_loop(src, position) ==
    IF is_alphanumeric(get_current_char(src, position))
    THEN alphanumeric_loop(src, position + 1)
    ELSE position

\* impl FromStr for Keyword: the keyword a spelling names, or None.
KeywordFromStr(string) ==
    CASE string = <<"a", "n", "d">> -> "And"
      [] string = <<"c", "l", "a", "s", "s">> -> "Class"
      [] string = <<"e", "l", "s", "e">> -> "Else"
      [] string = <<"f", "a", "l", "s", "e">> -> "False"
      [] string = <<"f", "u", "n">> -> "Fun"
      [] string = <<"f", "o", "r">> -> "For"
      [] string = <<"i", "f">> -> "If"
      [] string = <<"n", "i", "l">> -> "Nil"
      [] string = <<"o", "r">> -> "Or"
      [] string = <<"p", "r", "i", "n", "t">> -> "Print"
      [] string = <<"r", "e", "t", "u", "r", "n">> -> "Return"
      [] string = <<"s", "u", "p", "e", "r">> -> "Super"
      [] string = <<"t", "h", "i", "s">> -> "This"
      [] string = <<"t", "r", "u", "e">> -> "True"
      [] string = <<"v", "a", "r">> -> "Var"
      [] string = <<"w", "h", "i", "l", "e">> -> "While"
      [] OTHER -> None

\* scan_identifier looking the keyword up by the first two characters of
\* the run, not the whole run.
scan_identifier_by_prefix(src, start, line) ==
    LET position == alphanumeric_loop(src, start + 1)
        string == Slice(src, start, position)
        keyword == KeywordFromStr(Slice(src, start,
                                        IF position > start + 2
                                        THEN start + 2 ELSE position))
    IN  IF keyword # None
        THEN StepToken("Keyword", <<keyword>>, start, position, line)
        ELSE StepToken("Identifier", string, start, position, line)

scan_identifier(src, start, line) ==
    LET position == alphanumeric_loop(src, start + 1)
        string == Slice(src, start, position)
        keyword == KeywordFromStr(string)
    IN  IF keyword # None
        THEN StepToken("Keyword", <<keyword>>, start, position, line)
        ELSE StepToken("Identifier", string, start, position, line)

\* The blank arm on a scan_token that peeks its character without advancing.
scan_blank_no_advance(src, start, line) == StepOk(start, line, <<>>)

\* ' ' | '\r' | '\t' => Ok(None)
scan_blank(src, start, line) == StepOk(start + 1, line, <<>>)

\* '\n' => { self.advance_line(); Ok(None) }
scan_newline(src, start, line) == StepOk(start + 1, line + 1, <<>>)

\* _ => Err(..), and the else branch taken when no character could be read.
scan_invalid(src, start, line) == StepErr(start + 1, line, InvalidSyntax)

Blanks == {" ", "\r", "\t"}

Recognised == FixedChars \cup {"!", ">", "<", "=", "/", "\"", "\n"}
              \cup Digits \cup Letters \cup Blanks

-----------------------------------------------------------------------------
(* scan_tokens.  result.tag is "Running" while the loop runs, then "Ok"     *)
(* with the tokens, "Err" with the error, or "Panic".  The local vector     *)
(* `tokens` is moved into Ok and dropped otherwise.                         *)

Running == [tag |-> "Running", tokens |-> <<>>, message |-> "", line |-> 0]

Ok(toks) == [tag |-> "Ok", tokens |-> toks, message |-> "", line |-> 0]

Err(error) ==
    [tag |-> "Err", tokens |-> <<>>, message |-> error.message, line |-> error.line]

Panicked == [tag |-> "Panic", tokens |-> <<>>, message |-> "", line |-> 0]

Init ==
    /\ source \in Sources
    /\ current_position = 0
    /\ current_start = 0
    /\ current_line = 1
    /\ tokens = <<>>
    /\ result = Running

\* The loop going on after a failed step (the error kept, not propagated).
InLoopAfterError ==
    result.tag \in {"Running", "Err"} /\ ~finished(source, current_position)

\* The loop entered without asking finished().
InLoopUnchecked == result.tag = "Running"

\* while !self.finished() { self.mark_start(); match self.scan_token()? ... }
InLoop == result.tag = "Running" /\ ~finished(source, current_position)

\* The character get_current_char_and_advance hands to the match.
Character == get_current_char(source, current_position)

\* The iteration inserting its token at the front of the vector.
ApplyPrepending(step) ==
    /\ current_start' = current_position
    /\ current_position' = step.position
    /\ current_line' = step.line
    /\ tokens' = IF step.tag = "Ok" THEN step.emitted \o tokens ELSE <<>>
    /\ result' = CASE step.tag = "Ok" -> result
                   [] step.tag = "Err" -> Err(build_error(step.message, step.line))
                   [] step.tag = "Panic" -> Panicked
    /\ UNCHANGED source

\* One iteration: mark_start, then the outcome of scan_token applied.
Apply(step) ==
    /\ current_start' = current_position
    /\ current_position' = step.position
    /\ current_line' = step.line
    /\ tokens' = IF step.tag = "Ok" THEN tokens \o step.emitted ELSE <<>>
    /\ result' = CASE step.tag = "Ok" -> result
                   [] step.tag = "Err" -> Err(build_error(step.message, step.line))
                   [] step.tag = "Panic" -> Panicked
    /\ UNCHANGED source

ScanFixed ==
    /\ InLoop /\ Character \in FixedChars
    /\ Apply(scan_fixed(source, current_position, current_line))

ScanExclamation ==
    /\ InLoop /\ Character = "!"
    /\ Apply(scan_exclamation(source, current_position, current_line))

ScanGreater ==
    /\ InLoop /\ Character = ">"
    /\ Apply(scan_greater(source, current_position, current_line))

ScanLess ==
    /\ InLoop /\ Character = "<"
    /\ Apply(scan_less(source, current_position, current_line))

ScanEqual ==
    /\ InLoop /\ Character = "="
    /\ Apply(scan_equal(source, current_position, current_line))

ScanSlash ==
    /\ InLoop /\ Character = "/"
    /\ Apply(scan_slash(source, current_position, current_line))

ScanString ==
    /\ InLoop /\ Character = "\""
    /\ Apply(scan_string(source, current_position, current_line))

ScanNumber ==
    /\ InLoop /\ is_numeric(Character)
    /\ Apply(scan_number(source, current_position, current_line))

ScanIdentifier ==
    /\ InLoop /\ is_alpha(Character)
    /\ Apply(scan_identifier(source, current_position, current_line))

ScanBlank ==
    /\ InLoop /\ Character \in Blanks
    /\ Apply(scan_blank(source, current_position, current_line))

ScanNewline ==
    /\ InLoop /\ Character = "\n"
    /\ Apply(scan_newline(source, current_position, current_line))

ScanInvalid ==
    /\ InLoop /\ Character \notin Recognised
    /\ Apply(scan_invalid(source, current_position, current_line))

\* The loop ending with a closing EOF token pushed before Ok(tokens).
ReturnOkWithEOF ==
    /\ result.tag = "Running" /\ finished(source, current_position)
    /\ result' = Ok(Append(tokens, build_token("EOF", <<>>, current_position,
                                               current_position, current_line)))
    /\ tokens' = <<>>
    /\ UNCHANGED <<source, current_position, current_start, current_line>>

\* The loop ends: Ok(tokens).
ReturnOk ==
    /\ result.tag = "Running" /\ finished(source, current_position)
    /\ result' = Ok(tokens)
    /\ tokens' = <<>>
    /\ UNCHANGED <<source, current_position, current_start, current_line>>

ScanStep ==
    \/ ScanFixed \/ ScanExclamation \/ ScanGreater \/ ScanLess \/ ScanEqual
    \/ ScanSlash \/ ScanString \/ ScanNumber \/ ScanIdentifier
    \/ ScanBlank \/ ScanNewline \/ ScanInvalid

Next == ScanStep \/ ReturnOk

Spec == Init /\ [][Next]_vars

\* scan_tokens runs to its return: the loop is never suspended.
FairSpec == Spec /\ WF_vars(Next)

-----------------------------------------------------------------------------
(* What the properties below speak of, read off the source text alone.      *)

\* The character at 0-based position i, or None past the end.
CharAt(src, i) == IF i >= 0 /\ i < Len(src) THEN src[i + 1] ELSE None

\* The number of newline characters in src[from, to).
NewlinesIn(src, from, to) ==
    Cardinality({i \in from..(to - 1) : CharAt(src, i) = "\n"})

\* The first position at or after i that holds no character of `set`.
RunEnd(src, i, set) ==
    CHOOSE e \in i..Len(src) :
        /\ \A k \in i..(e - 1) : CharAt(src, k) \in set
        /\ CharAt(src, e) \notin set

\* The first position at or after i that holds `character`, or None.
FirstAt(src, i, character) ==
    IF \E q \in i..(Len(src) - 1) : CharAt(src, q) = character
    THEN CHOOSE q \in i..(Len(src) - 1) :
             /\ CharAt(src, q) = character
             /\ \A k \in i..(q - 1) : CharAt(src, k) # character
    ELSE -1

\* The step taken emits exactly one token, of this kind and span.
Emits(kind, from, to) ==
    /\ result'.tag = "Running"
    /\ Len(tokens') = Len(tokens) + 1
    /\ SubSeq(tokens', 1, Len(tokens)) = tokens
    /\ tokens'[Len(tokens')].kind = kind
    /\ tokens'[Len(tokens')].position.start = from
    /\ tokens'[Len(tokens')].position.current = to
    /\ current_position' = to

OperatorChars == {"!", "=", "<", ">"}

OneCharKind(character) ==
    CASE character = "!" -> "Exclamation"
      [] character = "=" -> "Equal"
      [] character = "<" -> "Less"
      [] character = ">" -> "Greater"

TwoCharKind(character) ==
    CASE character = "!" -> "ExclamationEqual"
      [] character = "=" -> "EqualEqual"
      [] character = "<" -> "LessEqual"
      [] character = ">" -> "GreaterEqual"

\* The spelling of a punctuation or operator kind.
Spelling(kind) ==
    CASE kind = "OpenParenthesis" -> <<"(">>
      [] kind = "CloseParenthesis" -> <<")">>
      [] kind = "OpenCurlyBracket" -> <<"{">>
      [] kind = "CloseCurlyBracket" -> <<"}">>
      [] kind = "Comma" -> <<",">>
      [] kind = "Dot" -> <<".">>
      [] kind = "Minus" -> <<"-">>
      [] kind = "Plus" -> <<"+">>
      [] kind = "Semicolon" -> <<";">>
      [] kind = "Slash" -> <<"/">>
      [] kind = "Asterisk" -> <<"*">>
      [] kind = "Exclamation" -> <<"!">>
      [] kind = "ExclamationEqual" -> <<"!", "=">>
      [] kind = "Equal" -> <<"=">>
      [] kind = "EqualEqual" -> <<"=", "=">>
      [] kind = "Greater" -> <<">">>
      [] kind = "GreaterEqual" -> <<">", "=">>
      [] kind = "Less" -> <<"<">>
      [] kind = "LessEqual" -> <<"<", "=">>

SpelledKinds ==
    {"OpenParenthesis", "CloseParenthesis", "OpenCurlyBracket",
     "CloseCurlyBracket", "Comma", "Dot", "Minus", "Plus", "Semicolon", "Slash",
     "Asterisk", "Exclamation", "ExclamationEqual", "Equal", "EqualEqual",
     "Greater", "GreaterEqual", "Less", "LessEqual"}

\* The position of the first newline at or after i, or the end of src.
LineEnd(src, i) ==
    IF FirstAt(src, i, "\n") >= 0 THEN FirstAt(src, i, "\n") ELSE Len(src)

Whitespace == {" ", "\r", "\t", "\n"}

\* src from position i on is whitespace and '//' comments only.
RECURSIVE OnlyTrivia(_, _)
OnlyTrivia(src, i) ==
    IF i >= Len(src) THEN TRUE
    ELSE IF CharAt(src, i) \in Whitespace THEN OnlyTrivia(src, i + 1)
    ELSE IF CharAt(src, i) = "/" /\ CharAt(src, i + 1) = "/"
         THEN OnlyTrivia(src, LineEnd(src, i))
         ELSE FALSE

-----------------------------------------------------------------------------
\* C1: a step that begins on '!', '=', '<' or '>' at p emits the
\* two-character kind with span [p, p+2) when the character at p+1 is '=',
\* and the one-character kind with span [p, p+1) otherwise.
C1_OperatorRule ==
    [][\A c \in OperatorChars :
          (InLoop /\ Character = c) =>
              IF CharAt(source, current_position + 1) = "="
              THEN Emits(TwoCharKind(c), current_position, current_position + 2)
              ELSE Emits(OneCharKind(c), current_position, current_position + 1)]_vars

\* C2: a step that begins on a digit at p emits one Number token that spans
\* the maximal digit run and, only when a '.' followed by a digit comes next,
\* the '.' and the digit run after it; a '.' left unconsumed is then the Dot
\* token of the next step.
C2_NumberRule ==
    [][/\ (InLoop /\ is_numeric(Character)) =>
              LET whole == RunEnd(source, current_position, Digits)
                  stop == IF /\ CharAt(source, whole) = "."
                             /\ CharAt(source, whole + 1) \in Digits
                          THEN RunEnd(source, whole + 1, Digits)
                          ELSE whole
              IN  Emits("Number", current_position, stop)
       /\ (/\ InLoop /\ Character = "." /\ tokens # <<>>
           /\ tokens[Len(tokens)].kind = "Number"
           /\ tokens[Len(tokens)].position.current = current_position) =>
              Emits("Dot", current_position, current_position + 1)]_vars

\* C3: scan_tokens only ever ends with Ok or Err: no lookahead reads a
\* position at or past the end of the source.
C3_OkOrErr == result.tag \in {"Running", "Ok", "Err"}

\* C4: every token of a successful result carries the line of its first
\* character, 1 plus the newlines before its start.
C4_TokenLine ==
    result.tag = "Ok" =>
        \A i \in 1..Len(result.tokens) :
            result.tokens[i].position.line =
                1 + NewlinesIn(source, 0, result.tokens[i].position.start)

\* C5: in a successful result the span of a punctuation or operator token
\* is the spelling of its kind, an Identifier's payload is its span and a
\* String's payload is its span without the two quotes.
C5_SpanSpelling ==
    result.tag = "Ok" =>
        \A i \in 1..Len(result.tokens) :
            LET t == result.tokens[i]
                span == Slice(source, t.position.start, t.position.current)
            IN  /\ t.kind \in SpelledKinds => span = Spelling(t.kind)
                /\ t.kind = "Identifier" => t.payload = span
                /\ t.kind = "String" =>
                       t.payload = Slice(source, t.position.start + 1,
                                         t.position.current - 1)

\* C6: the first failing step ends scan_tokens with its error: the result
\* carries that error and no token, the tokens recognised before are gone,
\* and no step follows an error.
C6_FirstErrorAborts ==
    [][/\ result.tag # "Err"
       /\ result'.tag = "Err" =>
              /\ result.tag = "Running"
              /\ result'.tokens = <<>> /\ tokens' = <<>>
              /\ result'.message \in {InvalidSyntax, EOFInString}
              /\ result'.line = current_line']_vars

C6_Witness ==
    /\ result.tag = "Err"
    /\ CharAt(source, 0) = "." /\ current_start >= 1
    /\ current_position < Len(source)

\* C7: scan_tokens terminates: every iteration of its loop moves the cursor
\* forward, and it returns once the cursor is at the end or a step failed.
C7_Terminates ==
    /\ [][/\ ScanStep => current_position' > current_position
          /\ (finished(source, current_position) /\ result.tag = "Running")
                 => result'.tag = "Ok"
          /\ result.tag # "Running" => FALSE]_vars
    /\ <>(result.tag # "Running")

C7_Witness ==
    /\ result.tag = "Ok"
    /\ Len(result.tokens) >= 2
    /\ result.tokens[1].kind \in {"String", "Number", "Identifier"}
    /\ result.tokens[1].position.current >= 2
    /\ current_position = Len(source)

\* C8: a source of whitespace and '//' comments only scans to Ok with no
\* token.
C8_TriviaOnly ==
    OnlyTrivia(source, 0) =>
        /\ tokens = <<>>
        /\ result.tag \in {"Running", "Ok"}
        /\ result.tokens = <<>>

C8_Witness ==
    /\ result.tag = "Ok" /\ OnlyTrivia(source, 0)
    /\ Len(source) >= 3
    /\ CharAt(source, 0) = "/" /\ CharAt(source, Len(source) - 1) \notin Whitespace

\* C9: a step that begins on '"' at p, with q the first '"' after p, emits
\* one String token with span [p, q+1) and contents source[p+1, q), and
\* raises the line counter by the newlines in source[p+1, q).
C9_StringLiteral ==
    [][(/\ InLoop /\ Character = "\""
        /\ FirstAt(source, current_position + 1, "\"") >= 0) =>
           LET q == FirstAt(source, current_position + 1, "\"")
           IN  /\ Emits("String", current_position, q + 1)
               /\ tokens'[Len(tokens')].payload = Slice(source, current_position + 1, q)
               /\ current_line' =
                      current_line + NewlinesIn(source, current_position + 1, q)]_vars

C9_Witness ==
    /\ tokens # <<>>
    /\ tokens[Len(tokens)].kind = "String"
    /\ tokens[Len(tokens)].payload = <<"\n">>
    /\ current_line = 2

\* C10: a step that begins on '"' at p with no '"' after it ends
\* scan_tokens with Err("EOF while scanning string literal") at the line of
\* the opening quote (1 plus the newlines before p) plus the newlines after
\* it, which is the line at the end of input.  No token is produced.
C10_UnterminatedString ==
    [][(/\ InLoop /\ Character = "\""
        /\ FirstAt(source, current_position + 1, "\"") < 0) =>
           /\ result'.tag = "Err"
           /\ result'.message = EOFInString
           /\ result'.line = current_line'
           /\ result'.line =
                  (1 + NewlinesIn(source, 0, current_position))
                  + NewlinesIn(source, current_position + 1, Len(source))
           /\ result'.tokens = <<>> /\ tokens' = <<>>]_vars

\* The sixteen keyword spellings with the keyword each names.
KeywordTable ==
    {<<<<"a", "n", "d">>, "And">>, <<<<"c", "l", "a", "s", "s">>, "Class">>,
     <<<<"e", "l", "s", "e">>, "Else">>, <<<<"f", "a", "l", "s", "e">>, "False">>,
     <<<<"f", "u", "n">>, "Fun">>, <<<<"f", "o", "r">>, "For">>,
     <<<<"i", "f">>, "If">>, <<<<"n", "i", "l">>, "Nil">>,
     <<<<"o", "r">>, "Or">>, <<<<"p", "r", "i", "n", "t">>, "Print">>,
     <<<<"r", "e", "t", "u", "r", "n">>, "Return">>,
     <<<<"s", "u", "p", "e", "r">>, "Super">>, <<<<"t", "h", "i", "s">>, "This">>,
     <<<<"t", "r", "u", "e">>, "True">>, <<<<"v", "a", "r">>, "Var">>,
     <<<<"w", "h", "i", "l", "e">>, "While">>}

KeywordSpellings == {entry[1] : entry \in KeywordTable}

KeywordNamed(spelling) ==
    (CHOOSE entry \in KeywordTable : entry[1] = spelling)[2]

\* C11: a step that begins on a letter or underscore at p emits one token
\* for the maximal run of letters, digits and underscores from p:
\* Keyword(k) exactly when the whole run is k's spelling, Identifier(run)
\* otherwise.
C11_IdentifierOrKeyword ==
    [][(InLoop /\ Character \in Letters) =>
           LET stop == RunEnd(source, current_position, Letters \cup Digits)
               run == Slice(source, current_position, stop)
           IN  IF run \in KeywordSpellings
               THEN /\ Emits("Keyword", current_position, stop)
                    /\ tokens'[Len(tokens')].payload = <<KeywordNamed(run)>>
               ELSE /\ Emits("Identifier", current_position, stop)
                    /\ tokens'[Len(tokens')].payload = run]_vars

\* The keyword "or" scanned after at least one other character.
C11_Witness ==
    /\ tokens # <<>>
    /\ tokens[Len(tokens)].kind = "Keyword"
    /\ tokens[Len(tokens)].payload = <<"Or">>
    /\ tokens[Len(tokens)].position.start >= 1

\* The characters some arm of the dispatch recognises.
Dispatched ==
    {"(", ")", "{", "}", ",", ".", "-", "+", ";", "*", "/", "!", "=", "<", ">",
     "\"", " ", "\r", "\t", "\n"} \cup Digits \cup Letters

\* C12: a step that begins at p on a character no arm recognises ends
\* scan_tokens with Err("Invalid syntax.") at the current line, 1 plus the
\* newlines before p.
C12_InvalidCharacter ==
    [][(InLoop /\ Character \notin Dispatched) =>
           /\ result'.tag = "Err"
           /\ result'.message = InvalidSyntax
           /\ result'.line = current_line
           /\ result'.line = 1 + NewlinesIn(source, 0, current_position)
           /\ result'.tokens = <<>>]_vars

\* The tokens recognised so far, or returned.
Recognized == IF result.tag = "Ok" THEN result.tokens ELSE tokens

\* C13: the tokens are in source order with disjoint spans: each has
\* start < end <= source length, and each ends at or before the start of
\* the next.
C13_OrderedSpans ==
    /\ \A i \in 1..Len(Recognized) :
           /\ Recognized[i].position.start < Recognized[i].position.current
           /\ Recognized[i].position.current <= Len(source)
    /\ \A i \in 1..(Len(Recognized) - 1) :
           Recognized[i].position.current <= Recognized[i + 1].position.start

C13_Witness ==
    /\ result.tag = "Ok"
    /\ Len(result.tokens) = 2
    /\ result.tokens[1].position.current = 2
    /\ result.tokens[2].position.start = 2

\* C14: at the start of every scan step and at the return of scan_tokens
\* the line counter is 1 plus the newlines the cursor has passed.
C14_LineCount ==
    result.tag \in {"Running", "Ok", "Err"} =>
        current_line = 1 + NewlinesIn(source, 0, current_position)

\* C15: no token has kind EOF, and once the cursor is at the end of the
\* source scan_tokens returns Ok with exactly the tokens recognised so far.
C15_NoEOFToken ==
    /\ [](\A i \in 1..Len(Recognized) : Recognized[i].kind # "EOF")
    /\ [][(result.tag = "Running" /\ finished(source, current_position)) =>
              /\ result'.tag = "Ok"
              /\ result'.tokens = tokens]_vars

C15_Witness ==
    /\ result.tag = "Ok"
    /\ Len(result.tokens) = 1
    /\ result.tokens[1].position.current < Len(source)

\* C16: scan_token is only called with a character to read, so no
\* "Invalid syntax." error comes from an exhausted input: each one is
\* raised on a character of the source that no arm recognises.
C16_NoExhaustedInputError ==
    /\ [][ScanStep => CharAt(source, current_position) # None]_vars
    /\ []((result.tag = "Err" /\ result.message = InvalidSyntax) =>
              /\ current_start < Len(source)
              /\ CharAt(source, current_start) \notin Dispatched)

\* The error raised on the last character, the cursor at the end.
C16_Witness ==
    /\ result.tag = "Err" /\ result.message = InvalidSyntax
    /\ current_start >= 1
    /\ current_position = Len(source)

TwoCharKinds == {"ExclamationEqual", "EqualEqual", "LessEqual", "GreaterEqual"}

\* C17: always 0 <= current_start <= current_position <= source length;
\* the cursor never moves back, and a step that emits a token leaves
\* current_start < current_position.
C17_CursorBounds ==
    /\ [](/\ 0 <= current_start
          /\ current_start <= current_position
          /\ current_position <= Len(source))
    /\ [][/\ current_position' >= current_position
          /\ Len(tokens') > Len(tokens) => current_start' < current_position']_vars

\* A two-character operator that ends the source.
C17_Witness ==
    /\ result.tag = "Running" /\ tokens # <<>>
    /\ tokens[Len(tokens)].kind \in TwoCharKinds
    /\ current_start = Len(source) - 2
    /\ current_position = Len(source)

=============================================================================
